---- MODULE Spec2Model ----
(***************************************************************************)
(* Model of Main.py: camera enumeration (get_camera_info,                  *)
(* list_video_sources), main's startup and shutdown, and the HTTP handler  *)
(* VideoStreamHandler.do_GET running under http.server.HTTPServer.         *)
(***************************************************************************)
EXTENDS Integers, Sequences, FiniteSets, TLC

(* ---------------------------------------------------------------------- *)
(* Program constants and bounds                                            *)
(* ---------------------------------------------------------------------- *)

\* range(10) in list_video_sources
NumIndices == 10

\* longest console line typed at the selection prompt
MaxInputLen == 2

\* characters a console line is drawn from
InputChars == {"-", "+", "0", "1", "9", "a"}

\* viewer connections made during one run
MaxConns == 2

\* frames the camera delivers before its reads only fail
MaxFrames == 2

\* read() calls on the streaming handle followed in one run
MaxPolls == 3

Conns == 1..MaxConns

\* request paths and request-line versions a viewer sends
Paths == {"/", "/stream", "/other"}
Versions == {"HTTP/1.1", "HTTP/0.9"}

\* Python's None where a CameraInfo dict is expected
None == [id |-> -1, name |-> "", resolution |-> "", backend |-> ""]

\* no name found by the WMI lookup (not on Windows, or no USB camera entry)
NoName == ""

VARIABLES
    pc,                 \* position of main
    i,                  \* loop variable of list_video_sources
    available_sources,  \* list built by list_video_sources / main's sources
    info,               \* value returned by the last get_camera_info call
    gciCap,             \* get_camera_info's local handle: none/unopened/open/released
    gciReleases,        \* release() calls made by the current get_camera_info call
    probeOk,            \* history: indices whose open and one-frame read both succeeded
    wmiName,            \* name found by the Windows WMI lookup, or NoName
    prompts,            \* number of input() calls made
    line,               \* the console line returned by input()
    selected_source,    \* main's selected_source
    cap,                \* main's streaming handle: none/open/released
    capDev,             \* device index the streaming handle was opened on
    capOpens,           \* streaming handles constructed
    capReleases,        \* cap.release() calls made by main
    listener,           \* none/bound/closed
    exc,                \* exception that left serve_forever: none/KeyboardInterrupt/OSError
    excWhere,           \* where the server was when it was raised
    conn,               \* per connection: state, request, bytes written, peer
    backlog,            \* connections waiting in the listen queue, oldest first
    current,            \* connection the server is handling, 0 when in select
    hpc,                \* position of the running do_GET
    frame,              \* do_GET's local frame (frame number), 0 when unset
    nextFrame,          \* number of the next frame the camera delivers
    polls               \* read() calls made on the streaming handle

startupVars == <<pc, i, available_sources, info, gciCap, gciReleases, probeOk,
                 wmiName, prompts, line, selected_source, cap, capDev, capOpens, capReleases,
                 listener>>

probeVars == <<i, available_sources, info, gciCap, gciReleases, probeOk,
               wmiName, prompts, line, selected_source>>

serveVars == <<exc, excWhere, conn, backlog, current, hpc, frame, nextFrame,
               polls>>

vars == <<startupVars, serveVars>>

(* ---------------------------------------------------------------------- *)
(* get_camera_info                                                         *)
(* ---------------------------------------------------------------------- *)

\* what the device API reports for an opened device
DeviceProps == [width |-> 640, height |-> 480, backend |-> "V4L2"]

\* f"{width}x{height}"
Resolution(width, height) == ToString(width) \o "x" \o ToString(height)

\* the dict returned by get_camera_info on success
CameraInfo(source_id) ==
    [id         |-> source_id,
     name       |-> IF wmiName # NoName THEN wmiName
                    ELSE "Camera " \o ToString(source_id),
     resolution |-> Resolution(DeviceProps.width, DeviceProps.height),
     backend    |-> DeviceProps.backend]

\* lines 9-11: construct the handle; return None when it did not open
GciOpen ==
    /\ pc = "gci_open"
    /\ \E opened \in BOOLEAN :
          IF opened
          THEN /\ gciCap' = "open"
               /\ pc' = "gci_read"
               /\ info' = info
          ELSE /\ gciCap' = "unopened"
               /\ pc' = "lvs_append"
               /\ info' = None
    /\ gciReleases' = 0
    /\ UNCHANGED <<serveVars, i, available_sources, probeOk, wmiName, prompts,
                   line, selected_source, cap, capDev, capOpens, capReleases,
                   listener>>

\* GciReadRelease with "if not ret: return None" moved above cap.release()
GciReadRelease_LeakOnReadFail ==
    /\ pc = "gci_read"
    /\ \E ret \in BOOLEAN :
          /\ info' = IF ret THEN CameraInfo(i) ELSE None
          /\ probeOk' = IF ret THEN probeOk \cup {i} ELSE probeOk
          /\ gciCap' = IF ret THEN "released" ELSE gciCap
          /\ gciReleases' = IF ret THEN gciReleases + 1 ELSE gciReleases
    /\ pc' = "lvs_append"
    /\ UNCHANGED <<serveVars, i, available_sources, wmiName, prompts, line,
                   selected_source, cap, capDev, capOpens, capReleases,
                   listener>>

\* GciReadRelease without the cap.release() of line 22
GciReadRelease_NoRelease ==
    /\ pc = "gci_read"
    /\ \E ret \in BOOLEAN :
          /\ info' = IF ret THEN CameraInfo(i) ELSE None
          /\ probeOk' = IF ret THEN probeOk \cup {i} ELSE probeOk
    /\ pc' = "lvs_append"
    /\ UNCHANGED <<serveVars, i, available_sources, gciCap, gciReleases,
                   wmiName, prompts, line, selected_source, cap, capDev,
                   capOpens, capReleases, listener>>

\* GciReadRelease without the "if not ret: return None" test
GciReadRelease_IgnoresRet ==
    /\ pc = "gci_read"
    /\ \E ret \in BOOLEAN :
          /\ info' = CameraInfo(i)
          /\ probeOk' = IF ret THEN probeOk \cup {i} ELSE probeOk
    /\ gciCap' = "released"
    /\ gciReleases' = gciReleases + 1
    /\ pc' = "lvs_append"
    /\ UNCHANGED <<serveVars, i, available_sources, wmiName, prompts, line,
                   selected_source, cap, capDev, capOpens, capReleases,
                   listener>>

\* lines 14-49: query properties, read one frame, release, build the result
GciReadRelease ==
    /\ pc = "gci_read"
    /\ \E ret \in BOOLEAN :
          /\ info' = IF ret THEN CameraInfo(i) ELSE None
          /\ probeOk' = IF ret THEN probeOk \cup {i} ELSE probeOk
    /\ gciCap' = "released"
    /\ gciReleases' = gciReleases + 1
    /\ pc' = "lvs_append"
    /\ UNCHANGED <<serveVars, i, available_sources, wmiName, prompts, line,
                   selected_source, cap, capDev, capOpens, capReleases,
                   listener>>

(* ---------------------------------------------------------------------- *)
(* list_video_sources                                                      *)
(* ---------------------------------------------------------------------- *)

\* lines 214-218: "if info: append", then the next index or return
LvsAppend ==
    /\ pc = "lvs_append"
    /\ available_sources' = IF info # None THEN Append(available_sources, info)
                            ELSE available_sources
    /\ i' = i + 1
    /\ pc' = IF i + 1 < NumIndices THEN "gci_open" ELSE "main_check"
    /\ UNCHANGED <<serveVars, info, gciCap, gciReleases, probeOk, wmiName,
                   prompts, line, selected_source, cap, capDev, capOpens,
                   capReleases, listener>>

(* ---------------------------------------------------------------------- *)
(* main: startup                                                           *)
(* ---------------------------------------------------------------------- *)

Digits == {"0", "1", "2", "3", "4", "5", "6", "7", "8", "9"}

DigitVal(c) ==
    CASE c = "0" -> 0 [] c = "1" -> 1 [] c = "2" -> 2 [] c = "3" -> 3
      [] c = "4" -> 4 [] c = "5" -> 5 [] c = "6" -> 6 [] c = "7" -> 7
      [] c = "8" -> 8 [] c = "9" -> 9

RECURSIVE DecimalValue(_)
DecimalValue(s) ==
    IF s = <<>> THEN 0
    ELSE 10 * DecimalValue(SubSeq(s, 1, Len(s) - 1)) + DigitVal(s[Len(s)])

\* int(text): an optional sign followed by one or more decimal digits;
\* anything else raises ValueError (ok = FALSE)
PyInt(s) ==
    LET signed == s # <<>> /\ s[1] \in {"-", "+"}
        body   == IF signed THEN Tail(s) ELSE s
    IN  IF body = <<>> \/ \E k \in 1..Len(body) : body[k] \notin Digits
        THEN [ok |-> FALSE, value |-> 0]
        ELSE [ok |-> TRUE,
              value |-> IF signed /\ s[1] = "-" THEN 0 - DecimalValue(body)
                        ELSE DecimalValue(body)]

\* sources[idx]: a Python list subscript is valid for -len <= idx < len
PyIndexOk(list, idx) == idx >= 0 - Len(list) /\ idx < Len(list)

\* sources[idx]: negative subscripts count from the end of the list
PyIndex(list, idx) ==
    IF idx >= 0 THEN list[idx + 1] ELSE list[Len(list) + idx + 1]

\* the lines that can be typed at the prompt
InputLines == UNION {[1..n -> InputChars] : n \in 0..MaxInputLen}

\* MainCheckSources without the early return of lines 233-235
MainCheckSources_NoReturn ==
    /\ pc = "main_check"
    /\ pc' = "main_select"
    /\ UNCHANGED <<serveVars, probeVars, cap, capDev, capOpens, capReleases,
                   listener>>

\* lines 233-239: no sources -> report and return; otherwise print the menu
MainCheckSources ==
    /\ pc = "main_check"
    /\ pc' = IF available_sources = <<>> THEN "done" ELSE "main_select"
    /\ UNCHANGED <<serveVars, probeVars, cap, capDev, capOpens, capReleases,
                   listener>>

\* NeedsPrompt with ">= 1" for "> 1"
NeedsPrompt_AtLeastOne(sources) == Len(sources) >= 1

\* line 241: "if len(sources) > 1"
NeedsPrompt(sources) == Len(sources) > 1

\* lines 241-245: prompt only when there is more than one source
MainSelect ==
    /\ pc = "main_select"
    /\ IF NeedsPrompt(available_sources)
       THEN \E typed \in InputLines :
               LET selected_idx == PyInt(typed)
               IN  /\ prompts' = prompts + 1
                   /\ line' = typed
                   /\ IF ~selected_idx.ok
                         \/ ~PyIndexOk(available_sources, selected_idx.value)
                      THEN /\ pc' = "crashed"
                           /\ selected_source' = selected_source
                      ELSE /\ pc' = "main_open"
                           /\ selected_source' =
                                  PyIndex(available_sources, selected_idx.value)
       ELSE /\ prompts' = prompts
            /\ line' = line
            /\ IF PyIndexOk(available_sources, 0)
               THEN /\ selected_source' = PyIndex(available_sources, 0)
                    /\ pc' = "main_open"
               ELSE /\ selected_source' = selected_source
                    /\ pc' = "crashed"
    /\ UNCHANGED <<serveVars, i, available_sources, info, gciCap, gciReleases,
                   probeOk, wmiName, cap, capDev, capOpens, capReleases,
                   listener>>

\* lines 247-254: cap = cv2.VideoCapture(selected_source['id'])
MainOpenCap ==
    /\ pc = "main_open"
    /\ cap' = "open"
    /\ capDev' = selected_source.id
    /\ capOpens' = capOpens + 1
    /\ pc' = "main_bind"
    /\ UNCHANGED <<serveVars, probeVars, capReleases, listener>>

\* lines 256-261: HTTPServer((local_ip, port), ...) binds and listens, or
\* raises OSError (address in use), which nothing in main catches
MainBind ==
    /\ pc = "main_bind"
    /\ \E ok \in BOOLEAN :
          IF ok THEN /\ listener' = "bound"
                     /\ pc' = "serve"
                ELSE /\ listener' = listener
                     /\ pc' = "crashed"
    /\ UNCHANGED <<serveVars, probeVars, cap, capDev, capOpens, capReleases>>


(* ---------------------------------------------------------------------- *)
(* Viewer connections and the bytes written to them                        *)
(* ---------------------------------------------------------------------- *)

\* one wfile.write of text, and one of raw bytes
Text(t) == [text |-> t, data |-> <<>>]
Data(b) == [text |-> "", data |-> b]

NoConn == [state |-> "idle", path |-> "", version |-> "", wfile |-> <<>>,
           peer |-> "open", error |-> ""]

\* a viewer connects and sends "GET <path> [<version>]"; the kernel queues it
Connect(c) ==
    /\ listener = "bound"
    /\ conn[c].state = "idle"
    /\ \A d \in Conns : d < c => conn[d].state # "idle"
    /\ \E path \in Paths, version \in Versions :
          conn' = [conn EXCEPT ![c] = [state |-> "pending", path |-> path,
                                       version |-> version, wfile |-> <<>>,
                                       peer |-> "open", error |-> ""]]
    /\ backlog' = Append(backlog, c)
    /\ UNCHANGED <<startupVars, exc, excWhere, current, hpc, frame, nextFrame,
                   polls>>

\* the viewer closes its end of the connection
ClientDisconnect(c) ==
    /\ conn[c].state \in {"pending", "handling"}
    /\ conn[c].peer = "open"
    /\ conn' = [conn EXCEPT ![c].peer = "gone"]
    /\ UNCHANGED <<startupVars, exc, excWhere, backlog, current, hpc, frame,
                   nextFrame, polls>>

\* outcomes of writing chunks to c: a write to a connected peer succeeds, a
\* write to a peer that has gone may still be buffered or raise; writing
\* nothing is no write at all
WriteOutcomes(c, chunks) ==
    IF chunks = <<>> \/ conn[c].peer = "open" THEN {TRUE} ELSE {TRUE, FALSE}

\* BaseHTTPRequestHandler.send_header: "%s: %s\r\n" % (keyword, value),
\* buffered unless the request was HTTP/0.9
HeaderLine(keyword, value) == keyword \o ": " \o value \o "\r\n"

SendHeader(version, buf, keyword, value) ==
    IF version # "HTTP/0.9" THEN Append(buf, Text(HeaderLine(keyword, value)))
    ELSE buf

\* BaseHTTPRequestHandler.send_response: status line, Server and Date headers
SendResponse(version, code) ==
    IF version # "HTTP/0.9"
    THEN <<Text("HTTP/1.0 " \o ToString(code) \o " OK\r\n"),
           Text(HeaderLine("Server", "BaseHTTP")),
           Text(HeaderLine("Date", "now"))>>
    ELSE <<>>

\* BaseHTTPRequestHandler.end_headers: blank line, then the buffer is flushed
EndHeaders(version, buf) ==
    IF version # "HTTP/0.9" THEN Append(buf, Text("\r\n")) ELSE buf

\* cv2.imencode('.jpg', frame, ...): the encoded image of a frame
JpegBytes(f) == <<255, 216>> \o [k \in 1..f |-> f] \o <<255, 217>>

\* lines 54-56 and 189-191: the response head of a route
ResponseHead(version, ctype) ==
    EndHeaders(version,
        SendHeader(version, SendResponse(version, 200), "Content-type", ctype))

\* lines 203-205: the part headers of one segment
PartHeaders(version, jpeg) ==
    EndHeaders(version,
        SendHeader(version,
            SendHeader(version, <<>>, "Content-type", "image/jpeg"),
            "Content-length", ToString(Len(jpeg))))

\* lines 58-187: the viewer page built from server.camera_info
PageBody(camera_info) ==
    <<Text("<html><title>" \o camera_info.name \o " (" \o
           camera_info.resolution \o ")</title></html>")>>

(* ---------------------------------------------------------------------- *)
(* HTTPServer.serve_forever and VideoStreamHandler.do_GET                  *)
(* ---------------------------------------------------------------------- *)

\* the request ends: socketserver shuts the connection down and the server
\* goes back to its select loop
Finished(c, chunks) ==
    [conn EXCEPT ![c].wfile = @ \o chunks, ![c].state = "closed"]

\* positions of do_GET inside the try block of lines 193-207
TryBlock == {"read", "write_boundary", "write_headers", "write_payload",
             "write_crlf"}

\* who reports an exception raised at position `at`: the except clause of
\* lines 208-210 prints "Streaming error", anything raised outside the try
\* block reaches socketserver's handle_error
ErrorReport(at) == IF at \in TryBlock THEN "Streaming error" ELSE "handle_error"

\* the request ends with an exception raised at position `at`
Failed(c, at) ==
    [conn EXCEPT ![c].state = "closed", ![c].error = ErrorReport(at)]

\* Accept as socketserver.ThreadingMixIn would do it: a queued connection
\* is taken while another request is still being handled
Accept_WhileHandling ==
    /\ pc = "serve"
    /\ backlog # <<>>
    /\ current' = Head(backlog)
    /\ backlog' = Tail(backlog)
    /\ conn' = [conn EXCEPT ![Head(backlog)].state = "handling"]
    /\ hpc' = "do_GET"
    /\ UNCHANGED <<startupVars, exc, excWhere, frame, nextFrame, polls>>

\* HTTPServer handles one connection at a time, in the thread of
\* serve_forever: the next queued connection is taken only between requests
Accept ==
    /\ pc = "serve"
    /\ current = 0
    /\ backlog # <<>>
    /\ current' = Head(backlog)
    /\ backlog' = Tail(backlog)
    /\ conn' = [conn EXCEPT ![Head(backlog)].state = "handling"]
    /\ hpc' = "do_GET"
    /\ UNCHANGED <<startupVars, exc, excWhere, frame, nextFrame, polls>>

\* HandlerWrite without the try/except of lines 193 and 208-210 and with
\* handle_error re-raising: a failed write leaves serve_forever
HandlerWrite_FailurePropagates(at, path, chunks, next) ==
    /\ pc = "serve"
    /\ current # 0
    /\ hpc = at
    /\ conn[current].path = path
    /\ \E ok \in WriteOutcomes(current, chunks) :
          IF ok /\ next # "return"
          THEN /\ conn' = [conn EXCEPT ![current].wfile = @ \o chunks]
               /\ hpc' = next
               /\ UNCHANGED <<current, frame, pc, exc, excWhere>>
          ELSE /\ conn' = IF ok THEN Finished(current, chunks)
                          ELSE Failed(current, at)
               /\ current' = 0
               /\ hpc' = "idle"
               /\ frame' = 0
               /\ pc' = IF ok THEN pc ELSE "finally_release"
               /\ exc' = IF ok THEN exc ELSE "OSError"
               /\ excWhere' = IF ok THEN excWhere ELSE at
    /\ UNCHANGED <<probeVars, cap, capDev, capOpens, capReleases, listener,
                   backlog, nextFrame, polls>>

\* HandlerWrite with the try/except placed inside the while loop: a failed
\* write is reported and the loop goes on with the next poll
HandlerWrite_ContinuesAfterFailure(at, path, chunks, next) ==
    /\ pc = "serve"
    /\ current # 0
    /\ hpc = at
    /\ conn[current].path = path
    /\ \E ok \in WriteOutcomes(current, chunks) :
          IF ok /\ next # "return"
          THEN /\ conn' = [conn EXCEPT ![current].wfile = @ \o chunks]
               /\ hpc' = next
               /\ UNCHANGED <<current, frame>>
          ELSE IF ok \/ at \notin TryBlock
          THEN /\ conn' = IF ok THEN Finished(current, chunks)
                          ELSE Failed(current, at)
               /\ current' = 0
               /\ hpc' = "idle"
               /\ frame' = 0
          ELSE /\ conn' = [conn EXCEPT ![current].error = ErrorReport(at)]
               /\ hpc' = "read"
               /\ UNCHANGED <<current, frame>>
    /\ UNCHANGED <<startupVars, exc, excWhere, backlog, nextFrame, polls>>

\* HandlerWrite writing to one output shared by all viewers: the chunks
\* reach every connection that has been accepted
HandlerWrite_SharedOutput(at, path, chunks, next) ==
    /\ pc = "serve"
    /\ current # 0
    /\ hpc = at
    /\ conn[current].path = path
    /\ \E ok \in WriteOutcomes(current, chunks) :
          LET sent == [c \in Conns |->
                         IF ok /\ conn[c].state \in {"handling", "closed"}
                         THEN [conn[c] EXCEPT !.wfile = @ \o chunks]
                         ELSE conn[c]]
          IN  IF ok /\ next # "return"
              THEN /\ conn' = sent
                   /\ hpc' = next
                   /\ UNCHANGED <<current, frame>>
              ELSE /\ conn' = IF ok
                              THEN [sent EXCEPT ![current].state = "closed"]
                              ELSE Failed(current, at)
                   /\ current' = 0
                   /\ hpc' = "idle"
                   /\ frame' = 0
    /\ UNCHANGED <<startupVars, exc, excWhere, backlog, nextFrame, polls>>

\* a write made by do_GET at position `at`: on success do_GET goes on at
\* `next` ("return" ends the request); a failed write raises, and whether
\* do_GET's own except clause or socketserver's handle_error catches it,
\* the request ends and the connection is shut down
HandlerWrite(at, path, chunks, next) ==
    /\ pc = "serve"
    /\ current # 0
    /\ hpc = at
    /\ conn[current].path = path
    /\ \E ok \in WriteOutcomes(current, chunks) :
          IF ok /\ next # "return"
          THEN /\ conn' = [conn EXCEPT ![current].wfile = @ \o chunks]
               /\ hpc' = next
               /\ UNCHANGED <<current, frame>>
          ELSE /\ conn' = IF ok THEN Finished(current, chunks)
                          ELSE Failed(current, at)
               /\ current' = 0
               /\ hpc' = "idle"
               /\ frame' = 0
    /\ UNCHANGED <<startupVars, exc, excWhere, backlog, nextFrame, polls>>

\* lines 53-56
DoGetPageHead ==
    HandlerWrite("do_GET", "/",
                 ResponseHead(conn[current].version, "text/html"), "page_body")

\* lines 58-187
DoGetPageBody ==
    HandlerWrite("page_body", "/", PageBody(selected_source), "return")

\* lines 188-191
DoGetStreamHead ==
    HandlerWrite("do_GET", "/stream",
                 ResponseHead(conn[current].version,
                              "multipart/x-mixed-replace; boundary=frame"),
                 "read")

\* DoGetOther with an explicit 404 response for unknown paths
DoGetOther_Sends404 ==
    HandlerWrite("do_GET", "/other",
                 <<Text("HTTP/1.0 404 Not Found\r\n"), Text("\r\n")>>,
                 "return")

\* neither branch of do_GET matches: it returns without writing
DoGetOther ==
    HandlerWrite("do_GET", "/other", <<>>, "return")

\* StreamRead with "if not ret: break" for "if not ret: continue"
StreamRead_FailEndsLoop ==
    /\ pc = "serve"
    /\ current # 0
    /\ hpc = "read"
    /\ polls < MaxPolls
    /\ polls' = polls + 1
    /\ \E ret \in (IF nextFrame <= MaxFrames THEN BOOLEAN ELSE {FALSE}) :
          IF ret
          THEN /\ frame' = nextFrame
               /\ nextFrame' = nextFrame + 1
               /\ hpc' = "write_boundary"
               /\ UNCHANGED <<conn, current>>
          ELSE /\ frame' = 0
               /\ nextFrame' = nextFrame
               /\ hpc' = "idle"
               /\ conn' = [conn EXCEPT ![current].state = "closed"]
               /\ current' = 0
    /\ UNCHANGED <<startupVars, exc, excWhere, backlog>>

\* lines 195-197: poll the shared handle; "if not ret: continue"
StreamRead ==
    /\ pc = "serve"
    /\ current # 0
    /\ hpc = "read"
    /\ polls < MaxPolls
    /\ polls' = polls + 1
    /\ \E ret \in (IF nextFrame <= MaxFrames THEN BOOLEAN ELSE {FALSE}) :
          IF ret
          THEN /\ frame' = nextFrame
               /\ nextFrame' = nextFrame + 1
               /\ hpc' = "write_boundary"
          ELSE /\ frame' = 0
               /\ nextFrame' = nextFrame
               /\ hpc' = "read"
    /\ UNCHANGED <<startupVars, exc, excWhere, conn, backlog, current>>

\* lines 199-200 raising: cv2.imencode rejects the frame (cv2.error), the
\* except clause of lines 208-210 reports it and do_GET returns
StreamEncodeFails ==
    /\ pc = "serve"
    /\ current # 0
    /\ hpc = "write_boundary"
    /\ conn[current].path = "/stream"
    /\ conn' = Failed(current, "write_boundary")
    /\ current' = 0
    /\ hpc' = "idle"
    /\ frame' = 0
    /\ UNCHANGED <<startupVars, exc, excWhere, backlog, nextFrame, polls>>

\* lines 199-202: encode, then write the boundary line
StreamWriteBoundary ==
    HandlerWrite("write_boundary", "/stream", <<Text("--frame\r\n")>>,
                 "write_headers")

\* lines 203-205
StreamWriteHeaders ==
    HandlerWrite("write_headers", "/stream",
                 PartHeaders(conn[current].version, JpegBytes(frame)),
                 "write_payload")

\* line 206
StreamWritePayload ==
    HandlerWrite("write_payload", "/stream", <<Data(JpegBytes(frame))>>,
                 "write_crlf")

\* line 207
StreamWriteCrlf ==
    HandlerWrite("write_crlf", "/stream", <<Text("\r\n")>>, "read")

(* ---------------------------------------------------------------------- *)
(* main: shutdown                                                          *)
(* ---------------------------------------------------------------------- *)

\* Interrupt with each request handled in a thread of its own: the handler
\* that was running is not unwound by the KeyboardInterrupt of the main thread
Interrupt_HandlerKeepsRunning ==
    /\ pc = "serve"
    /\ exc' = "KeyboardInterrupt"
    /\ excWhere' = hpc
    /\ pc' = "finally_release"
    /\ UNCHANGED <<probeVars, cap, capDev, capOpens, capReleases, listener,
                   conn, current, hpc, frame, backlog, nextFrame, polls>>

\* Ctrl+C while serve_forever runs, in the select loop or inside do_GET:
\* KeyboardInterrupt is not an Exception, so the except clause of line 208
\* does not catch it; socketserver shuts the request down and re-raises
Interrupt ==
    /\ pc = "serve"
    /\ exc' = "KeyboardInterrupt"
    /\ excWhere' = hpc
    /\ conn' = IF current # 0 THEN Finished(current, <<>>) ELSE conn
    /\ current' = 0
    /\ hpc' = "idle"
    /\ frame' = 0
    /\ pc' = "finally_release"
    /\ UNCHANGED <<probeVars, cap, capDev, capOpens, capReleases, listener,
                   backlog, nextFrame, polls>>

\* any other exception leaving serve_forever (the selector failing)
ServeError ==
    /\ pc = "serve"
    /\ current = 0
    /\ exc' = "OSError"
    /\ excWhere' = hpc
    /\ pc' = "finally_release"
    /\ UNCHANGED <<probeVars, cap, capDev, capOpens, capReleases, listener,
                   conn, backlog, current, hpc, frame, nextFrame, polls>>

\* FinallyRelease with a second cap.release() in the except clause of line 265
FinallyRelease_AlsoInExcept ==
    /\ pc = "finally_release"
    /\ cap' = "released"
    /\ capReleases' = IF exc = "KeyboardInterrupt" THEN capReleases + 2
                      ELSE capReleases + 1
    /\ pc' = "finally_close"
    /\ UNCHANGED <<probeVars, capDev, capOpens, listener, serveVars>>

\* line 268
FinallyRelease ==
    /\ pc = "finally_release"
    /\ cap' = "released"
    /\ capReleases' = capReleases + 1
    /\ pc' = "finally_close"
    /\ UNCHANGED <<probeVars, capDev, capOpens, listener, serveVars>>

\* line 269, then main returns or the pending exception propagates
FinallyClose ==
    /\ pc = "finally_close"
    /\ listener' = "closed"
    /\ conn' = [c \in Conns |->
                  IF conn[c].state = "pending"
                  THEN [conn[c] EXCEPT !.state = "closed"] ELSE conn[c]]
    /\ backlog' = <<>>
    /\ pc' = IF exc = "KeyboardInterrupt" THEN "done" ELSE "crashed"
    /\ UNCHANGED <<probeVars, cap, capDev, capOpens, capReleases, exc,
                   excWhere, current, hpc, frame, nextFrame, polls>>

(* ---------------------------------------------------------------------- *)
(* Specifications                                                          *)
(* ---------------------------------------------------------------------- *)

InitServeVars ==
    /\ exc = "none"
    /\ excWhere = "none"
    /\ conn = [c \in Conns |-> NoConn]
    /\ backlog = <<>>
    /\ current = 0
    /\ hpc = "idle"
    /\ frame = 0
    /\ nextFrame = 1
    /\ polls = 0

\* the program as started
InitStartup ==
    /\ pc = "gci_open"
    /\ i = 0
    /\ available_sources = <<>>
    /\ info = None
    /\ gciCap = "none"
    /\ gciReleases = 0
    /\ probeOk = {}
    /\ wmiName \in {NoName, "USB Camera"}
    /\ prompts = 0
    /\ line = <<>>
    /\ selected_source = None
    /\ cap = "none"
    /\ capDev = -1
    /\ capOpens = 0
    /\ capReleases = 0
    /\ listener = "none"
    /\ InitServeVars

NextStartup ==
    \/ GciOpen
    \/ GciReadRelease
    \/ LvsAppend
    \/ MainCheckSources
    \/ MainSelect
    \/ MainOpenCap
    \/ MainBind

SpecStartup == InitStartup /\ [][NextStartup]_vars

\* main just after line 254 on a machine whose only camera is device 0:
\* enumeration found that one source, nothing was prompted, and the
\* streaming handle has been opened on it
InitServe ==
    /\ pc = "main_bind"
    /\ i = NumIndices
    /\ wmiName = NoName
    /\ available_sources = <<CameraInfo(0)>>
    /\ info = None
    /\ gciCap = "unopened"
    /\ gciReleases = 0
    /\ probeOk = {0}
    /\ prompts = 0
    /\ line = <<>>
    /\ selected_source = CameraInfo(0)
    /\ cap = "open"
    /\ capDev = 0
    /\ capOpens = 1
    /\ capReleases = 0
    /\ listener = "none"
    /\ InitServeVars

NextServe ==
    \/ MainBind
    \/ \E c \in Conns : Connect(c)
    \/ \E c \in Conns : ClientDisconnect(c)
    \/ Accept
    \/ DoGetPageHead
    \/ DoGetPageBody
    \/ DoGetStreamHead
    \/ DoGetOther
    \/ StreamRead
    \/ StreamEncodeFails
    \/ StreamWriteBoundary
    \/ StreamWriteHeaders
    \/ StreamWritePayload
    \/ StreamWriteCrlf
    \/ Interrupt
    \/ ServeError
    \/ FinallyRelease
    \/ FinallyClose

SpecServe == InitServe /\ [][NextServe]_vars

\* the whole program
Init == InitStartup

Next == NextStartup \/ NextServe

Spec == Init /\ [][Next]_vars

(* ---------------------------------------------------------------------- *)
(* Properties                                                              *)
(* ---------------------------------------------------------------------- *)

StreamLoop == {"read", "write_boundary", "write_headers", "write_payload",
               "write_crlf"}

Probing == {"gci_open", "gci_read", "lvs_append"}

Ended == {"done", "crashed"}

\* C1: each accepted connection is handled concurrently: while a /stream
\* connection is being served, a connection waiting at the listener can be
\* taken up by the server without the stream having to end first.
C1_ConcurrentHandling ==
    \A c \in Conns :
        (/\ pc = "serve"
         /\ conn[c].state = "pending"
         /\ current # 0
         /\ conn[current].path = "/stream"
         /\ hpc \in StreamLoop)
        => ENABLED Accept

\* C2: on an interrupt received while serving, cap.release() is called
\* exactly once: never twice, and once the finally clause has passed line
\* 268 exactly one call has been made, whatever the connections were doing.
C2_ReleasedOnceOnInterrupt ==
    exc = "KeyboardInterrupt" =>
        /\ capReleases <= 1
        /\ pc \in {"finally_close"} \cup Ended =>
              (capReleases = 1 /\ cap = "released")

\* the interrupt arrived inside the /stream loop while another viewer was
\* waiting, and the release has been made
C2_Witness ==
    /\ exc = "KeyboardInterrupt"
    /\ excWhere \in StreamLoop
    /\ pc = "finally_close"
    /\ capReleases = 1
    /\ \E c \in Conns : conn[c].state = "pending"

\* C3: whenever main has ended after opening the streaming handle, exactly
\* one handle was opened and it has been released exactly once.
C3_ReleasedOnEveryExit ==
    (pc \in Ended /\ capOpens >= 1) =>
        (capOpens = 1 /\ capReleases = 1 /\ cap = "released")

SourceIds == {available_sources[k].id : k \in 1..Len(available_sources)}

\* C4: list_video_sources probes 0..9 in ascending order and its result is
\* exactly the CameraInfo of the indices whose open and read both succeeded,
\* in ascending index order: at most 10 entries, none repeated or out of
\* range.
C4_EnumerateResult ==
    /\ i \in 0..NumIndices
    /\ probeOk \subseteq 0..(NumIndices - 1)
    /\ Len(available_sources) <= NumIndices
    /\ \A k \in 1..Len(available_sources) :
          /\ available_sources[k].id \in 0..(NumIndices - 1)
          /\ available_sources[k] = CameraInfo(available_sources[k].id)
          /\ \A j \in 1..(k - 1) :
                available_sources[j].id < available_sources[k].id
    /\ pc = "lvs_append" => SourceIds = probeOk \ {i}
    /\ pc # "lvs_append" => SourceIds = probeOk
    /\ pc \notin Probing => i = NumIndices

\* enumeration has returned a list that skips some indices and keeps others
C4_Witness ==
    /\ pc = "main_check"
    /\ probeOk = {1, 4, 9}
    /\ Len(available_sources) = 3
    /\ available_sources[3].id = 9

\* C5 as claimed: get_camera_info has called release() on its handle on
\* every return path, the failed open included.
C5_AlwaysReleases ==
    pc = "lvs_append" => gciReleases = 1

\* C5 as amended: get_camera_info never returns with its handle open; when
\* the open succeeded it has called release() exactly once, whether the read
\* failed or succeeded, and when the open failed it returns None without
\* calling release().
C5_ReleasedWhenOpened ==
    pc = "lvs_append" =>
        \/ gciCap = "released" /\ gciReleases = 1
        \/ gciCap = "unopened" /\ gciReleases = 0 /\ info = None

\* get_camera_info returned None after an open that succeeded and a read
\* that failed, with the handle released
C5_Witness ==
    /\ pc = "lvs_append"
    /\ gciCap = "released"
    /\ gciReleases = 1
    /\ info = None

\* C6: when enumeration yields nothing, main ends without prompting, without
\* opening a streaming handle and without binding a listener.
C6_NoSourcesNoServer ==
    (pc \notin Probing /\ available_sources = <<>>) =>
        /\ pc \in {"main_check", "done"}
        /\ prompts = 0
        /\ cap = "none"
        /\ capOpens = 0
        /\ listener = "none"

\* main has returned after an enumeration that found nothing
C6_Witness ==
    /\ pc = "done"
    /\ available_sources = <<>>
    /\ i = NumIndices

\* C7: with exactly one source no console read happens and the streaming
\* handle is opened on that source's device index.
C7_SingleSourceNoPrompt ==
    (pc \notin Probing /\ Len(available_sources) = 1) =>
        /\ prompts = 0
        /\ pc \in {"main_check", "main_select", "main_open", "main_bind",
                   "serve", "crashed"}
        /\ pc \in {"main_open", "main_bind", "serve", "crashed"} =>
              selected_source = available_sources[1]
        /\ pc \in {"main_bind", "serve", "crashed"} =>
              (cap = "open" /\ capOpens = 1
               /\ capDev = available_sources[1].id)

\* the only source is device 9 and the streaming handle is open on it
C7_Witness ==
    /\ pc = "serve"
    /\ Len(available_sources) = 1
    /\ available_sources[1].id = 9
    /\ capDev = 9
    /\ prompts = 0

\* C8: with more than one source, a line that is not an integer in 0..k-1
\* ends main with an error before the streaming handle is opened and before
\* the listener is bound; an integer in 0..k-1 selects that list entry.
C8_InvalidSelectionFatal ==
    prompts = 1 =>
        LET k == Len(available_sources)
            n == PyInt(line)
        IN  IF n.ok /\ n.value \in 0..(k - 1)
            THEN /\ selected_source = available_sources[n.value + 1]
                 /\ cap # "none" => capDev = selected_source.id
            ELSE /\ pc = "crashed"
                 /\ cap = "none"
                 /\ listener = "none"

\* the segment of frame f as the stream route defines it
Segment(f) ==
    <<Text("--frame\r\n"),
      Text("Content-type: image/jpeg\r\n"),
      Text("Content-length: " \o ToString(Len(JpegBytes(f))) \o "\r\n"),
      Text("\r\n"),
      Data(JpegBytes(f)),
      Text("\r\n")>>

RECURSIVE Segments(_, _)
Segments(a, b) == IF a > b THEN <<>> ELSE Segment(a) \o Segments(a + 1, b)

IsPrefix(s, t) == Len(s) <= Len(t) /\ SubSeq(t, 1, Len(s)) = s

\* what connection c was sent after the response head
StreamBody(c) ==
    LET head == ResponseHead(conn[c].version,
                             "multipart/x-mixed-replace; boundary=frame")
    IN  SubSeq(conn[c].wfile, Len(head) + 1, Len(conn[c].wfile))

\* connection 1 is the only connection made and it asked for /stream
SingleStream ==
    /\ conn[1].state \in {"handling", "closed"}
    /\ conn[1].path = "/stream"
    /\ \A c \in Conns \ {1} : conn[c].state = "idle"

\* C9: a single /stream connection is sent one whole segment per frame
\* polled, in poll order, each with boundary line, Content-type header,
\* Content-length header equal to the payload length, blank line, payload
\* and line break: N segments once the N frames have been polled and written.
C9_SegmentsFramed ==
    SingleStream =>
        /\ IsPrefix(StreamBody(1), Segments(1, nextFrame - 1))
        /\ (current = 1 /\ hpc = "read") =>
              StreamBody(1) = Segments(1, nextFrame - 1)

\* C10: a poll that reports no frame writes nothing, keeps the connection
\* and the loop, and leaves the handler at the poll; a poll that reports a
\* frame takes the handler straight to writing that frame's segment.
C10_EmptyPollRetried ==
    [][(hpc = "read" /\ polls' = polls + 1) =>
          IF nextFrame' = nextFrame
          THEN /\ hpc' = "read"
               /\ conn' = conn
               /\ current' = current
               /\ pc' = pc
          ELSE /\ hpc' = "write_boundary"
               /\ frame' = nextFrame
               /\ conn' = conn
               /\ current' = current]_vars

\* after two polls without a frame the third poll of the same connection
\* delivered frame 1, and its segment is written up to the payload
C10_Witness ==
    /\ SingleStream
    /\ current = 1
    /\ polls = 3
    /\ nextFrame = 2
    /\ frame = 1
    /\ hpc = "write_crlf"
    /\ StreamBody(1) # <<>>

\* C11: a failure in a /stream handler (a write or the encode raising) ends
\* that viewer's request only: nothing leaves serve_forever, the streaming
\* handle stays open and unreleased, the listener stays bound, no other
\* connection is touched and the server is back at accepting connections.
C11_FailureStaysLocal ==
    [][(/\ current # 0
        /\ conn[current].path = "/stream"
        /\ hpc \in TryBlock \cup {"do_GET"}
        /\ conn'[current].state = "closed"
        /\ exc' # "KeyboardInterrupt")
       => (/\ pc' = "serve"
           /\ exc' = "none"
           /\ cap' = "open"
           /\ capReleases' = 0
           /\ listener' = "bound"
           /\ current' = 0
           /\ backlog' = backlog
           /\ \A d \in Conns \ {current} : conn'[d] = conn[d])]_vars

\* viewer 1's stream ended with a reported failure and viewer 2 was then
\* served, the handle still open and the listener still bound
C11_Witness ==
    /\ conn[1].path = "/stream"
    /\ conn[1].error = "Streaming error"
    /\ conn[2].state \in {"handling", "closed"}
    /\ conn[2].wfile # <<>>
    /\ pc = "serve"
    /\ cap = "open"
    /\ listener = "bound"

Handling == {c \in Conns : conn[c].state = "handling"}

\* C12: reads of the shared handle are mutually exclusive: at most one
\* handler exists at any time, it is the one the server thread is running,
\* and only it can be at the read of line 195.
C12_OneReaderAtATime ==
    /\ Cardinality(Handling) <= 1
    /\ current = 0 => Handling = {}
    /\ current # 0 => Handling = {current}
    /\ hpc \in TryBlock => (current # 0 /\ conn[current].path = "/stream")

\* one viewer is in the stream loop after a poll while another viewer of
\* /stream is waiting
C12_Witness ==
    /\ current # 0
    /\ hpc = "read"
    /\ polls >= 1
    /\ \E c \in Conns : conn[c].state = "pending" /\ conn[c].path = "/stream"

\* the segment of frame f as do_GET writes it for a request of version v
CodeSegment(v, f) ==
    <<Text("--frame\r\n")>> \o PartHeaders(v, JpegBytes(f))
        \o <<Data(JpegBytes(f)), Text("\r\n")>>

\* body is whole segments of frames lo.. in ascending order, followed by at
\* most one unfinished segment
RECURSIVE WellFramed(_, _, _)
WellFramed(body, v, lo) ==
    \/ body = <<>>
    \/ \E f \in lo..MaxFrames :
          LET seg == CodeSegment(v, f)
          IN  IF Len(body) < Len(seg) THEN IsPrefix(body, seg)
              ELSE /\ IsPrefix(seg, body)
                   /\ WellFramed(SubSeq(body, Len(seg) + 1, Len(body)), v,
                                 f + 1)

\* the payloads written to connection c
Payloads(c) ==
    {conn[c].wfile[k].data : k \in {j \in 1..Len(conn[c].wfile) :
                                       conn[c].wfile[j].data # <<>>}}

\* C13: what is written on a /stream connection is that connection's own
\* response head followed by whole segments and at most one unfinished
\* segment; no frame's bytes appear on two connections, and nothing is
\* written to a connection that has not been accepted.
C13_FramingNotCorrupted ==
    \A c \in Conns :
        /\ conn[c].state \in {"idle", "pending"} => conn[c].wfile = <<>>
        /\ conn[c].path = "/stream" =>
              /\ \/ conn[c].wfile = <<>>
                 \/ IsPrefix(ResponseHead(conn[c].version,
                        "multipart/x-mixed-replace; boundary=frame"),
                        conn[c].wfile)
              /\ WellFramed(StreamBody(c), conn[c].version, 1)
              /\ \A d \in Conns \ {c} :
                    conn[d].path = "/stream" =>
                        Payloads(c) \cap Payloads(d) = {}

\* two /stream connections have each been sent a frame
C13_Witness ==
    /\ conn[1].path = "/stream"
    /\ conn[2].path = "/stream"
    /\ Payloads(1) # {}
    /\ Payloads(2) # {}

\* C14: once a write of a segment has failed the connection is torn down:
\* it is closed, no handler runs for it, and nothing about it changes any
\* more (no further byte is written on it).
C14_NoWriteAfterFailure ==
    /\ [](\A c \in Conns :
             conn[c].error # "" =>
                 (conn[c].state = "closed" /\ current # c))
    /\ [][\A c \in Conns :
             /\ conn[c].error # "" => conn'[c] = conn[c]
             /\ (conn[c].error = "" /\ conn'[c].error # "") =>
                   (polls' = polls /\ conn'[c].wfile = conn[c].wfile)]_vars

\* a stream was torn down in the middle of a segment, its payload written
\* and the line break not, while the camera still had a frame to deliver
C14_Witness ==
    \E c \in Conns :
        /\ conn[c].error = "Streaming error"
        /\ conn[c].wfile # <<>>
        /\ conn[c].wfile[Len(conn[c].wfile)].data # <<>>
        /\ nextFrame <= MaxFrames
        /\ polls < MaxPolls

\* C15: on shutdown from serve_forever the stream loop has stopped before
\* the handle is released, no poll is made after the release, and the
\* release comes before the listener is closed and before main ends.
C15_StopThenReleaseThenClose ==
    /\ [](/\ cap = "released" => (current = 0 /\ Handling = {})
          /\ listener = "closed" => cap = "released"
          /\ (pc \in Ended /\ exc # "none") =>
                (cap = "released" /\ listener = "closed"))
    /\ [][cap = "released" => polls' = polls]_vars

\* main has returned after an interrupt that arrived inside the stream loop
C15_Witness ==
    /\ pc = "done"
    /\ excWhere \in TryBlock
    /\ polls >= 1
    /\ cap = "released"
    /\ listener = "closed"

\* C16: at most one capture handle is open at any time: a probe's handle is
\* closed before the next index is probed, and no probe handle is open
\* when the streaming handle is.
C16_OneHandleOpen ==
    /\ ~(gciCap = "open" /\ cap = "open")
    /\ pc \in {"gci_open", "lvs_append"} => gciCap # "open"
    /\ pc \notin Probing => gciCap # "open"
    /\ gciCap = "open" => pc = "gci_read"

\* the streaming handle is open on device 9, which the prober opened,
\* read and released last
C16_Witness ==
    /\ cap = "open"
    /\ capDev = NumIndices - 1
    /\ gciCap = "released"
    /\ gciReleases = 1
    /\ pc = "main_bind"

\* C17: handling a request for a path other than /stream makes no poll and
\* leaves the handle and the stored CameraInfo alone; a request for a path
\* other than / and /stream is sent nothing, and when do_GET returns the
\* server is back at accepting connections.
C17_OnlyStreamTouchesHandle ==
    /\ [](/\ \A c \in Conns :
                conn[c].path = "/other" =>
                    (conn[c].wfile = <<>> /\ conn[c].error = "")
          /\ (current # 0 /\ conn[current].path # "/stream") =>
                hpc \notin TryBlock)
    /\ [][(current # 0 /\ conn[current].path # "/stream") =>
             /\ polls' = polls
             /\ nextFrame' = nextFrame
             /\ cap' = cap
             /\ capDev' = capDev
             /\ capReleases' = capReleases
             /\ selected_source' = selected_source
             /\ (conn[current].path = "/other" /\ hpc' # hpc
                 /\ exc' = exc) =>
                   (/\ current' = 0
                    /\ pc' = "serve"
                    /\ conn'[current].state = "closed")]_vars

\* a request for an unknown path got nothing and the next viewer got its page
C17_Witness ==
    /\ conn[1].path = "/other"
    /\ conn[1].state = "closed"
    /\ conn[1].wfile = <<>>
    /\ conn[2].path = "/"
    /\ conn[2].state = "closed"
    /\ conn[2].wfile # <<>>
    /\ exc = "none"
    /\ polls = 0
    /\ cap = "open"

====
